---------------------------- MODULE Spec2Model ----------------------------
(***************************************************************************)
(* A model of httplib.go: the transport opener (newConn), the single-shot  *)
(* executor (getResponse), the persistent client (Client.Request) and the  *)
(* fluent request builder (Get/Post/Put/Delete, Header, Param, Body and    *)
(* the terminal calls AsString, AsBytes, AsFile, AsResponse).              *)
(*                                                                         *)
(* Strings whose bytes matter (URLs, hosts, bodies, parameter keys and     *)
(* values, file contents) are sequences of tokens; a token is one byte,    *)
(* except for the opaque words of a URL ("http", "://", a host name).      *)
(* The network and the file system are the environment: every outcome of   *)
(* a dial, a TLS handshake, a hostname verification, a write, a read, a    *)
(* file open and a body copy is an input of the action that performs it.   *)
(***************************************************************************)
EXTENDS Integers, Sequences, FiniteSets, TLC

(* ---------------------------- bounds ----------------------------------- *)

\* connections a behaviour may open
MaxConns == 3
\* terminal calls made on the builder
MaxCalls == 2

(* ---------------------------- values ----------------------------------- *)

Nil == "nil"

\* a nil connection handle, and a nil *http.URL
NilConn == 0

NilURL == [ok |-> FALSE, Scheme |-> "", Host |-> <<>>]

\* a Go map[string]string is the set of its <<key, value>> pairs, keys unique
EmptyMap == {}

\* a map argument: Go's nil map, or the map m
NilMap == [isNil |-> TRUE, m |-> {}]

MapArg(m) == [isNil |-> FALSE, m |-> m]

defaultUserAgent == "httplib.go"

ErrPersistEOF == "ErrPersistEOF"

\* m[k] of a Go map[string]string: the zero value "" for an absent key
MapGet(m, k) == IF \E p \in m : p[1] = k THEN (CHOOSE p \in m : p[1] = k)[2] ELSE ""

\* m[k] = v of a Go map
MapPut(m, k, v) == {p \in m : p[1] # k} \cup {<<k, v>>}

\* the element of a one-element set: The({e(x) : x \in {v}}) is e(v), with v
\* evaluated once
The(S) == CHOOSE x \in S : TRUE

(* ------------------------- strings.LastIndex --------------------------- *)

\* the last position of token c in s, 0 when there is none (Go: -1)
LastIndex(s, c) ==
    LET hits == {i \in 1..Len(s) : s[i] = c}
    IN  IF hits = {} THEN 0 ELSE CHOOSE i \in hits : \A j \in hits : j <= i

\* the first position of token c in s, 0 when there is none (Go: -1)
Index(s, c) ==
    LET hits == {i \in 1..Len(s) : s[i] = c}
    IN  IF hits = {} THEN 0 ELSE CHOOSE i \in hits : \A j \in hits : i <= j

hasPort(s) == LastIndex(s, ":") > LastIndex(s, "]")

(* --------------------------- http.ParseURL ----------------------------- *)

\* the end of the authority of raw: the last token before the first "/" or "?"
HostEnd(raw) ==
    LET stops == {i \in 3..Len(raw) : raw[i] \in {"/", "?"}}
    IN  IF stops = {} THEN Len(raw)
        ELSE (CHOOSE i \in stops : \A j \in stops : i <= j) - 1

\* scheme "://" host rest; an invalid percent escape is a parse error
ParseURL(raw) ==
    IF \E i \in 1..Len(raw) : raw[i] = "%zz"
    THEN NilURL
    ELSE IF Len(raw) >= 3 /\ raw[2] = "://"
    THEN [ok |-> TRUE, Scheme |-> raw[1], Host |-> SubSeq(raw, 3, HostEnd(raw))]
    ELSE [ok |-> TRUE, Scheme |-> "", Host |-> <<>>]

(* --------------------------- http.URLEscape ---------------------------- *)

Unreserved == {"k", "v", "w", "1"}

EscapeByte(c) ==
    IF c \in Unreserved THEN <<c>>
    ELSE IF c = " " THEN <<"+">>
    ELSE IF c = "&" THEN <<"%", "2", "6">>
    ELSE IF c = "=" THEN <<"%", "3", "D">>
    ELSE IF c = "?" THEN <<"%", "3", "F">>
    ELSE <<"%", "X", "X">>

RECURSIVE URLEscape(_)
URLEscape(s) ==
    IF s = <<>> THEN <<>> ELSE EscapeByte(Head(s)) \o URLEscape(Tail(s))

(* ------------------------------ newConn -------------------------------- *)

\* the host a TLS connection is verified against: url.Host with its port cut
VerifyName(h) == IF hasPort(h) THEN SubSeq(h, 1, LastIndex(h, ":") - 1) ELSE h

DialAddr(url) == IF ~hasPort(url.Host) THEN url.Host \o <<":", url.Scheme>> ELSE url.Host

\* what a connection handle wraps: the address dialled, whether the stream is
\* a TLS session, and the name its certificate was verified against
PlainConn(url) == [addr |-> DialAddr(url), tls |-> FALSE, verified |-> <<>>]

TLSConn(url) == [addr |-> DialAddr(url), tls |-> TRUE, verified |-> VerifyName(url.Host)]

NoConnRec == [addr |-> <<>>, tls |-> FALSE, verified |-> <<>>]

\* the connection handle id on success; rec is what the handle wraps
\* net is what the network does: the dial (with the TLS handshake) fails, the
\* certificate does not match the name, or all goes well
newConn(url, id, net) ==
    IF url.Scheme = "http"
    THEN IF net = "dialFails" THEN [conn |-> NilConn, err |-> "DialErr", rec |-> NoConnRec]
         ELSE [conn |-> id, err |-> Nil, rec |-> PlainConn(url)]
    ELSE IF net = "dialFails" THEN [conn |-> NilConn, err |-> "TLSErr", rec |-> NoConnRec]
         ELSE IF net = "nameMismatch"
         THEN [conn |-> NilConn, err |-> "VerifyErr", rec |-> NoConnRec]
         ELSE [conn |-> id, err |-> Nil, rec |-> TLSConn(url)]

NetOutcomes == {"ok", "dialFails", "nameMismatch"}

\* what the peer does with one exchange: the write fails, or the read ends
\* with no error, with http.ErrPersistEOF or with another error
IOOutcomes == {"writeFails", "ok", "ErrPersistEOF", "ReadErr"}

(* ---------------------------- state ------------------------------------ *)

VARIABLES
    driver,     \* which of the two independent APIs the calling program drives
    conns,      \* the connections opened so far: handle -> what it wraps
    nextId,     \* the next fresh connection handle
    client,     \* Client: conn (a handle or Nil) and lastURL (a parsed URL or Nil)
    clast,      \* the Client.Request call that has just returned: its steps and return
    b,          \* HttpRequestBuilder: url, req fields, params; Nil before a factory
    explicit,   \* history: Body set b.req.Body from a string or a byte slice
    lastParam,  \* history: the <<key, value>> of the last Param call, if any
    sent,       \* history: one entry per call of b.getResponse: the URL before
                \* and after finalization, the parameters, the connection opened
    ncalls,     \* history: terminal calls made on the builder
    blast,      \* the terminal call that has just returned: its steps and return;
                \* b is then the builder as that call left it. Calls are made by
                \* one goroutine, each after the one before it has returned
    file        \* the content of the file AsFile names, Nil when it does not exist

vars == <<driver, conns, nextId, client, clast, b, explicit, lastParam, sent, ncalls, blast, file>>

clientVars == <<client, clast>>

builderVars == <<b, explicit, lastParam, sent, ncalls, blast, file>>

(* ------------------------- Client.Request ------------------------------ *)

RawURLs ==
    { <<"http", "://", "h1", "/">>,
      <<"https", "://", "h1", "/">>,
      <<"https", "://", "h1", ":", "443", "/">>,
      <<"https", "://", "[", ":", ":", "1", "]", "/">>,
      <<"http", "://", "%zz">> }

HeaderArgs ==
    {NilMap, MapArg(EmptyMap), MapArg({<<"User-Agent", "ua">>}), MapArg({<<"User-Agent", "">>})}

ClientMethods == {"GET", "POST"}

NoClientCall ==
    [op |-> "none", parsed |-> FALSE, scheme |-> "", host |-> <<>>,
     prevConn |-> NilConn, prevHost |-> <<>>, opened |-> FALSE, openErr |-> Nil,
     conn |-> NilConn, wrote |-> FALSE, read |-> FALSE, readOutcome |-> Nil,
     headerUA |-> "", userAgent |-> "", resp |-> Nil, err |-> Nil, panic |-> FALSE]

\* line 101: the cached connection cannot serve url
needsOpenAlways(c, url) == TRUE

needsOpen(c, url) == c.conn = NilConn \/ c.lastURL.Host # url.Host

\* lines 114-117
clientUserAgent(headers) ==
    IF MapGet(headers, "User-Agent") = "" THEN "httplib.go"
    ELSE MapGet(headers, "User-Agent")

\* lines 130-135: what Request returns for the outcome of conn.Read
clientRead(outcome) ==
    IF outcome # "ok" THEN [resp |-> Nil, err |-> outcome]
    ELSE [resp |-> "resp", err |-> Nil]

Request(rawurl, method, headers, net, io) ==
    /\ driver = "Client"
    /\ clast = NoClientCall
    /\ nextId <= MaxConns
    /\ \E url \in {ParseURL(rawurl)} :
       IF ~url.ok
       THEN /\ clast' = [NoClientCall EXCEPT !.op = "Request", !.err = "ParseErr",
                            !.prevConn = client.conn,
                            !.prevHost = client.lastURL.Host]
            /\ UNCHANGED <<client, conns, nextId>>
       ELSE \E nc \in {newConn(url, nextId, net)} :
            LET open == needsOpen(client, url)
                conn == IF open THEN nc.conn ELSE client.conn
                hdr  == IF headers.isNil THEN EmptyMap ELSE headers.m
                ua   == clientUserAgent(hdr)
                rd   == clientRead(io)
                call == [NoClientCall EXCEPT
                            !.op = "Request", !.parsed = TRUE,
                            !.scheme = url.Scheme, !.host = url.Host,
                            !.prevConn = client.conn,
                            !.prevHost = client.lastURL.Host,
                            !.opened = open,
                            !.openErr = IF open THEN nc.err ELSE Nil,
                            !.conn = conn, !.headerUA = MapGet(hdr, "User-Agent"),
                            !.userAgent = ua,
                            \* line 125 runs whatever newConn returned
                            !.wrote = TRUE]
            IN  /\ client' = [conn |-> conn, lastURL |-> url]
                /\ IF open /\ nc.conn # NilConn
                   THEN /\ conns' = (nc.conn :> nc.rec) @@ conns
                        /\ nextId' = nextId + 1
                   ELSE UNCHANGED <<conns, nextId>>
                /\ clast' =
                     IF conn = NilConn
                     THEN \* client.conn.Write on a nil *ClientConn
                          [call EXCEPT !.panic = TRUE]
                     ELSE IF io = "writeFails"
                     THEN [call EXCEPT !.err = "WriteErr"]
                     ELSE [call EXCEPT !.read = TRUE, !.readOutcome = io,
                                       !.resp = rd.resp, !.err = rd.err]
    /\ UNCHANGED <<driver, builderVars>>

\* the caller takes what Request returned; the next call may start
ClientReturn ==
    /\ clast # NoClientCall
    /\ clast' = NoClientCall
    /\ UNCHANGED <<driver, conns, nextId, client, builderVars>>

ClientNext ==
    \/ ClientReturn
    \/ \E rawurl \in RawURLs, method \in ClientMethods, headers \in HeaderArgs,
       net \in NetOutcomes, io \in IOOutcomes :
        Request(rawurl, method, headers, net, io)

(* ------------------------ HttpRequestBuilder --------------------------- *)

BaseURLs ==
    { <<"http", "://", "h1", "/", "p">>,
      <<"https", "://", "h1", "/", "p", "?", "w", "=", "1">>,
      <<"http", "://", "%zz">> }

PlainURLs == { <<"http", "://", "h1", "/", "p">> }

HeaderKeys == {"User-Agent"}

HeaderVals == {"ua", ""}

\* the <<key, value>> arguments of Param
ParamArgs == { <<<<"k">>, <<"v">>>>, <<<<"k">>, <<"&">>>>, <<<<" ">>, <<"v">>>> }

\* the argument of Body: a string, a []byte, or a value of another type
BodyArgs ==
    { [type |-> "string", val |-> <<"h", "i">>],
      [type |-> "bytes",  val |-> <<>>],
      [type |-> "int",    val |-> <<>>] }

\* an io.ReadCloser over a buffer: nil, or the bytes not read yet
NilBody == [nil |-> TRUE, buf |-> <<>>]

Buffer(bytes) == [nil |-> FALSE, buf |-> bytes]

NoBuilder ==
    [created |-> FALSE, url |-> <<>>, Method |-> "", Header |-> EmptyMap,
     UserAgent |-> "", Body |-> NilBody, ContentLength |-> 0, params |-> EmptyMap]

NoFile == [exists |-> FALSE, data |-> <<>>]

File(bytes) == [exists |-> TRUE, data |-> bytes]

\* nothing has been observed of a terminal call
NoBuilderCall ==
    [op |-> "none", finalized |-> FALSE, dispatched |-> NilBody,
     parsed |-> FALSE, conn |-> NilConn, wrote |-> FALSE, readOutcome |-> Nil,
     execResp |-> FALSE, execErr |-> Nil,
     respBody |-> NilBody, resp |-> FALSE, err |-> Nil, val |-> <<>>]

\* lines 148-178: the four factories differ in the method only
NewBuilder(method, url) ==
    [created |-> TRUE, url |-> url, Method |-> method, Header |-> EmptyMap,
     UserAgent |-> defaultUserAgent, Body |-> NilBody, ContentLength |-> 0,
     params |-> EmptyMap]

Factory(method, url) ==
    /\ driver = "Builder"
    /\ ~b.created
    /\ b' = NewBuilder(method, url)
    /\ UNCHANGED <<driver, conns, nextId, clientVars, explicit, lastParam, sent, ncalls, blast, file>>

Get(url) == Factory("GET", url)

Post(url) == Factory("POST", url)

Put(url) == Factory("PUT", url)

Delete(url) == Factory("DELETE", url)

\* lines 213-216
setHeader(bb, key, value) == [bb EXCEPT !.Header = MapPut(bb.Header, key, value)]

Header(key, value) ==
    /\ driver = "Builder"
    /\ b.created
    /\ blast = NoBuilderCall
    /\ b' = setHeader(b, key, value)
    /\ UNCHANGED <<driver, conns, nextId, clientVars, explicit, lastParam, sent, ncalls, blast, file>>

\* lines 218-221
setParam(bb, key, value) == [bb EXCEPT !.params = MapPut(bb.params, key, value)]

Param(key, value) ==
    /\ driver = "Builder"
    /\ b.created
    /\ blast = NoBuilderCall
    /\ b' = setParam(b, key, value)
    /\ lastParam' = <<key, value>>
    /\ UNCHANGED <<driver, conns, nextId, clientVars, explicit, sent, ncalls, blast, file>>

\* lines 223-233: a value that is neither a string nor a []byte changes nothing
setBody(bb, data) ==
    IF data.type \in {"string", "bytes"}
    THEN [bb EXCEPT !.Body = Buffer(data.val), !.ContentLength = Len(data.val)]
    ELSE bb

Body(data) ==
    /\ driver = "Builder"
    /\ b.created
    /\ blast = NoBuilderCall
    /\ b' = setBody(b, data)
    /\ explicit' = (explicit \/ data.type \in {"string", "bytes"})
    /\ UNCHANGED <<driver, conns, nextId, clientVars, lastParam, sent, ncalls, blast, file>>

(* ------------------- HttpRequestBuilder.getResponse -------------------- *)

\* the orders in which `range b.params` may visit the map
Orders(m) ==
    {o \in [1..Cardinality(m) -> m] : \A i, j \in 1..Cardinality(m) : o[i] = o[j] => i = j}

\* lines 190-195: what the loop writes to buf
RECURSIVE WriteParams(_)
WriteParams(ord) ==
    IF ord = <<>> THEN <<>>
    ELSE URLEscape(Head(ord)[1]) \o <<"=">> \o URLEscape(Head(ord)[2]) \o <<"&">>
         \o WriteParams(Tail(ord))

paramBodyKeepTrailing(params, ord) == IF Cardinality(params) > 0 THEN WriteParams(ord) ELSE <<>>

\* lines 187-198
paramBody(params, ord) ==
    IF Cardinality(params) > 0
    THEN The({ SubSeq(buf, 1, Len(buf) - 1) : buf \in {WriteParams(ord)} })
    ELSE <<>>

EndsWith(u, t) == Len(u) >= Len(t) /\ SubSeq(u, Len(u) - Len(t) + 1, Len(u)) = t

finalizeIdempotent(bb, ord) ==
    The({
      IF bb.Method = "GET" /\ Len(pb) > 0
      THEN IF EndsWith(bb.url, pb) THEN bb
           ELSE IF Index(bb.url, "?") # 0
           THEN [bb EXCEPT !.url = bb.url \o <<"&">> \o pb]
           ELSE [bb EXCEPT !.url = bb.url \o <<"?">> \o pb]
      ELSE IF bb.Method = "POST" /\ bb.Body.nil /\ Len(pb) > 0
      THEN [bb EXCEPT !.Body = Buffer(pb), !.ContentLength = Len(pb)]
      ELSE bb
      : pb \in {paramBody(bb.params, ord)} })

\* lines 199-208: the builder as it is when getResponse(b.url, b.req) is called
finalize(bb, ord) ==
    The({
      IF bb.Method = "GET" /\ Len(pb) > 0
      THEN IF Index(bb.url, "?") # 0
           THEN [bb EXCEPT !.url = bb.url \o <<"&">> \o pb]
           ELSE [bb EXCEPT !.url = bb.url \o <<"?">> \o pb]
      ELSE IF bb.Method = "POST" /\ bb.Body.nil /\ Len(pb) > 0
      THEN [bb EXCEPT !.Body = Buffer(pb), !.ContentLength = Len(pb)]
      ELSE bb
      : pb \in {paramBody(bb.params, ord)} })

(* ----------------------------- getResponse ----------------------------- *)

\* the response a read yields: a body stream (nil, or its bytes)
RespBodies == {NilBody, Buffer(<<"x">>)}

NoResp == [nil |-> TRUE, Body |-> NilBody]

Resp(body) == [nil |-> FALSE, Body |-> body]

\* lines 85-91: what getResponse returns for the outcome of conn.Read
execReadStrict(outcome, body) ==
    IF outcome # "ok" THEN [resp |-> NoResp, err |-> outcome]
    ELSE [resp |-> Resp(body), err |-> Nil]

execRead(outcome, body) ==
    IF outcome # "ok" /\ outcome # ErrPersistEOF
    THEN [resp |-> NoResp, err |-> outcome]
    ELSE [resp |-> Resp(body), err |-> Nil]

\* lines 64-92. The result says how far the call got (parsed, conn, wrote,
\* readOutcome) and what it returns (resp, err); body is req.Body after the call:
\* conn.Write reads the stream to its end, a failed write is taken to fail
\* before the body is reached.
getResponse(rawUrl, req, id, env) ==
    LET none == [parsed |-> FALSE, conn |-> NilConn, rec |-> NoConnRec, wrote |-> FALSE,
                 readOutcome |-> Nil, resp |-> NoResp, err |-> Nil, body |-> req.Body]
    IN  The({
          IF ~url.ok THEN [none EXCEPT !.err = "ParseErr"]
          ELSE The({
            IF nc.err # Nil THEN [none EXCEPT !.parsed = TRUE, !.err = nc.err]
            ELSE IF env.io = "writeFails"
            THEN [none EXCEPT !.parsed = TRUE, !.conn = nc.conn, !.rec = nc.rec,
                              !.err = "WriteErr"]
            ELSE The({
              [none EXCEPT !.parsed = TRUE, !.conn = nc.conn, !.rec = nc.rec,
                           !.wrote = TRUE,
                           !.body = IF req.Body.nil THEN NilBody ELSE Buffer(<<>>),
                           !.readOutcome = env.io,
                           !.resp = rd.resp, !.err = rd.err]
              : rd \in {execRead(env.io, env.body)} })
            : nc \in {newConn(url, id, env.net)} })
          : url \in {ParseURL(rawUrl)} })

(* --------------------------- terminal calls ---------------------------- *)

\* os.Open(filename, os.O_RDWR|os.O_CREATE, 0644): the file as it is, created
\* empty when it did not exist
openFile(f) == IF f.exists THEN f ELSE File(<<>>)

\* n bytes of src written at offset 0 of a file holding old
WriteAt0(old, src, n) == SubSeq(src, 1, n) \o SubSeq(old, n + 1, Len(old))

\* what the environment does with one terminal call; a stage that fails makes
\* the later stages irrelevant, and they are left at "ok"
Env(fs, net, io, body, drain) ==
    [file |-> fs, net |-> net, io |-> io, body |-> body, drain |-> drain]

Envs ==
    { Env("openFails", "ok", "ok", NilBody, "ok"),
      Env("ok", "dialFails", "ok", NilBody, "ok"),
      Env("ok", "nameMismatch", "ok", NilBody, "ok"),
      Env("ok", "ok", "writeFails", NilBody, "ok"),
      Env("ok", "ok", "ReadErr", NilBody, "ok"),
      Env("ok", "ok", "ok", NilBody, "ok"),
      Env("ok", "ok", "ok", Buffer(<<"x">>), "ok"),
      Env("ok", "ok", "ok", Buffer(<<"x">>), "fails"),
      Env("ok", "ok", "ErrPersistEOF", Buffer(<<"x">>), "ok") }

\* lines 235-290: b.getResponse() and what each terminal call does with it
Terminal(op, ord, env) ==
    /\ driver = "Builder"
    /\ b.created
    /\ blast = NoBuilderCall
    /\ ncalls < MaxCalls
    /\ ord \in Orders(b.params)
    /\ op # "AsFile" => env.file = "ok"
    /\ ncalls' = ncalls + 1
    /\ IF op = "AsFile" /\ env.file = "openFails"
       THEN \* lines 268-271
            /\ blast' = [NoBuilderCall EXCEPT !.op = op, !.err = "OpenErr"]
            /\ UNCHANGED <<b, sent, conns, nextId, file>>
       ELSE \E fb \in {finalize(b, ord)} :
            \E r \in {getResponse(fb.url, fb, nextId, env)} :
            LET f    == IF op = "AsFile" THEN openFile(file) ELSE file
                body == r.resp.Body
                \* ioutil.ReadAll and io.Copy on resp.Body
                drained == r.err = Nil /\ ~body.nil
                derr == IF drained /\ env.drain = "fails" THEN "BodyErr" ELSE r.err
                call == [NoBuilderCall EXCEPT
                            !.op = op, !.finalized = TRUE, !.dispatched = fb.Body,
                            \* what getResponse returned
                            !.execResp = ~r.resp.nil, !.execErr = r.err,
                            !.parsed = r.parsed, !.conn = r.conn, !.wrote = r.wrote,
                            !.readOutcome = r.readOutcome, !.respBody = body,
                            \* AsResponse hands the response itself to the caller
                            !.resp = (op = "AsResponse" /\ ~r.resp.nil),
                            !.err = derr,
                            !.val = IF op \in {"AsString", "AsBytes"} /\ drained
                                       /\ env.drain = "ok"
                                    THEN body.buf ELSE <<>>]
            IN  /\ b' = [fb EXCEPT !.Body = r.body]
                /\ sent' = Append(sent, [before |-> b.url, url |-> fb.url,
                                         params |-> b.params, conn |-> r.conn])
                /\ IF r.conn # NilConn
                   THEN /\ conns' = (r.conn :> r.rec) @@ conns
                        /\ nextId' = nextId + 1
                   ELSE UNCHANGED <<conns, nextId>>
                /\ file' = IF op = "AsFile" /\ drained
                           THEN IF env.drain = "ok"
                                THEN File(WriteAt0(f.data, body.buf, Len(body.buf)))
                                ELSE \* the copy stops short of the last byte
                                     File(WriteAt0(f.data, body.buf, Len(body.buf) - 1))
                           ELSE f
                /\ blast' = call
    /\ UNCHANGED <<driver, clientVars, explicit, lastParam>>

AsString(ord, env) == Terminal("AsString", ord, env)

AsBytes(ord, env) == Terminal("AsBytes", ord, env)

AsFile(ord, env) == Terminal("AsFile", ord, env)

AsResponse(ord, env) == Terminal("AsResponse", ord, env)

\* the caller takes what the terminal call returned; the next call may start
BuilderReturn ==
    /\ blast # NoBuilderCall
    /\ blast' = NoBuilderCall
    /\ UNCHANGED <<driver, conns, nextId, clientVars, b, explicit, lastParam, sent, ncalls, file>>

Factories ==
    \/ \E url \in BaseURLs : Get(url)
    \/ \E url \in BaseURLs : Post(url)
    \/ \E url \in PlainURLs : Put(url)
    \/ \E url \in PlainURLs : Delete(url)

Chained ==
    \/ \E key \in HeaderKeys, value \in HeaderVals : Header(key, value)
    \/ \E kv \in ParamArgs : Param(kv[1], kv[2])
    \/ \E data \in BodyArgs : Body(data)

TerminalCalls ==
    \/ \E env \in Envs : \E ord \in Orders(b.params) : AsString(ord, env)
    \/ \E env \in Envs : \E ord \in Orders(b.params) : AsBytes(ord, env)
    \/ \E env \in Envs : \E ord \in Orders(b.params) : AsFile(ord, env)
    \/ \E env \in Envs : \E ord \in Orders(b.params) : AsResponse(ord, env)

BuilderNext == Factories \/ Chained \/ TerminalCalls \/ BuilderReturn

(* ------------------------------ system --------------------------------- *)

Init ==
    /\ driver \in {"Client", "Builder"}
    /\ conns = [i \in {} |-> NoConnRec]
    /\ nextId = 1
    /\ client = [conn |-> NilConn, lastURL |-> NilURL]
    /\ clast = NoClientCall
    /\ b = NoBuilder
    /\ explicit = FALSE
    /\ lastParam = <<>>
    /\ sent = <<>>
    /\ ncalls = 0
    /\ blast = NoBuilderCall
    /\ file \in {NoFile, File(<<"o", "l">>)}

Next == ClientNext \/ BuilderNext

Spec == Init /\ [][Next]_vars

\* the program drives the persistent client only
InitClient == Init /\ driver = "Client"

SpecClient == InitClient /\ [][ClientNext]_vars

\* a program that drives one builder, and no file where AsFile will write
InitBuilder == Init /\ driver = "Builder" /\ ~file.exists

PostNext ==
    \/ \E url \in BaseURLs : Post(url)
    \/ Chained
    \/ TerminalCalls
    \/ BuilderReturn

\* the program drives one POST builder; the file AsFile names does not exist
SpecPost == InitBuilder /\ [][PostNext]_vars

GetNext ==
    \/ \E url \in BaseURLs : Get(url)
    \/ \E kv \in ParamArgs : Param(kv[1], kv[2])
    \/ TerminalCalls
    \/ BuilderReturn

ExchangeNext == ClientNext \/ Factories \/ TerminalCalls \/ BuilderReturn

\* the program drives the client, or a builder it makes terminal calls on
SpecExchange == Init /\ [][ExchangeNext]_vars

\* the program drives one GET builder, on which it sets parameters only; the
\* file AsFile names does not exist
SpecGet == InitBuilder /\ [][GetNext]_vars

(* ------------------------------ claims --------------------------------- *)

\* the separator the claims expect between a URL and a parameter string
Sep(u) == IF \E i \in 1..Len(u) : u[i] = "?" THEN "&" ELSE "?"

EncodedPair(p) == URLEscape(p[1]) \o <<"=">> \o URLEscape(p[2])

\* the pairs of o, escaped, with "&" between them and none after the last
RECURSIVE JoinPairs(_)
JoinPairs(o) ==
    IF Len(o) = 0 THEN <<>>
    ELSE IF Len(o) = 1 THEN EncodedPair(o[1])
    ELSE EncodedPair(o[1]) \o <<"&">> \o JoinPairs(Tail(o))

\* the encoded parameter strings of a mapping: one per order of its pairs
ParamStrings(m) == {JoinPairs(o) : o \in Orders(m)}

\* C1: a Request call that parses its URL opens a connection exactly when
\* none is cached or the cached host differs from the URL's host; otherwise
\* it uses the cached handle; and it leaves the URL's host as the cached
\* host. A call that fails to parse leaves the client as it was.
C1_ReuseOrOpen ==
    clast.op = "Request" =>
        IF clast.parsed
        THEN /\ clast.opened <=> (clast.prevConn = NilConn \/ clast.prevHost # clast.host)
             /\ ~clast.opened => (clast.conn = clast.prevConn /\ client.conn = clast.prevConn)
             /\ clast.opened => (clast.conn = NilConn \/ clast.conn \notin 1..(nextId - 2))
             /\ client.lastURL.ok /\ client.lastURL.Host = clast.host
        ELSE ~clast.opened /\ ~clast.wrote /\ client.conn = clast.prevConn

\* C1 witness: a second connection has been opened for another host, and the
\* call that has just returned wrote to the cached handle without opening
C1_Witness ==
    /\ clast.op = "Request" /\ clast.parsed /\ ~clast.opened /\ clast.read
    /\ nextId = 3
    /\ clast.conn = 2

\* C2: when the connection open of Client.Request fails, nothing is written
\* to the connection and the caller receives the open error.
C2_OpenErrorReturned ==
    (clast.op = "Request" /\ clast.opened /\ clast.openErr # Nil)
        => (~clast.wrote /\ ~clast.panic /\ clast.err = clast.openErr)

\* C3: after a successful AsFile of a response that has a body, the file
\* holds exactly the bytes of the response body.
C3_FileIsBody ==
    (blast.op = "AsFile" /\ blast.err = Nil /\ ~blast.respBody.nil)
        => (file.exists /\ file.data = blast.respBody.buf)

\* C4: on the first terminal call of a GET builder, the URL passed to the
\* executor is the base URL when no parameter is set, and otherwise the base
\* URL, one separator ("?" when the base URL has no "?", else "&") and the
\* escaped key=value pairs of the mapping, each key once with the value
\* written last, joined by "&" with no trailing separator.
C4_GetURL ==
    (ncalls = 1 /\ blast.finalized /\ b.Method = "GET") =>
        /\ lastParam # <<>> => lastParam \in sent[1].params
        /\ \A p, q \in sent[1].params : p[1] = q[1] => p = q
        /\ IF sent[1].params = {}
           THEN sent[1].url = sent[1].before
           ELSE \E ps \in ParamStrings(sent[1].params) :
                    sent[1].url = sent[1].before \o <<Sep(sent[1].before)>> \o ps

\* C4 witness: the first terminal call of a GET builder whose base URL has a
\* query, with two parameters of which one was written twice, has sent
C4_Witness ==
    /\ ncalls = 1 /\ blast.wrote /\ b.Method = "GET"
    /\ Sep(sent[1].before) = "&"
    /\ sent[1].params = {<< <<"k">>, <<"&">> >>, << <<" ">>, <<"v">> >>}
    /\ lastParam = << <<"k">>, <<"&">> >>

\* C5: at every finalization of a POST builder: with no body set by Body and
\* a non-empty mapping, the body dispatched is an encoded parameter string
\* and content-length is its length; with a body set by Body, the URL is
\* left alone.
C5_PostBody ==
    (blast.finalized /\ b.Method = "POST") =>
        /\ (~explicit /\ b.params # {}) =>
              /\ ~blast.dispatched.nil
              /\ blast.dispatched.buf \in ParamStrings(b.params)
              /\ b.ContentLength = Len(blast.dispatched.buf)
        /\ explicit => b.url = sent[Len(sent)].before

\* C6: when the read yields http.ErrPersistEOF, getResponse returns the
\* response and no error while Client.Request returns the error and no
\* response; for another read error both return the error and no response.
C6_PersistEOF ==
    /\ (blast.finalized /\ blast.readOutcome = ErrPersistEOF)
          => (blast.execResp /\ blast.execErr = Nil)
    /\ (blast.finalized /\ blast.readOutcome = "ReadErr")
          => (~blast.execResp /\ blast.execErr = "ReadErr" /\ blast.err = "ReadErr")
    /\ (clast.op = "Request" /\ clast.readOutcome = ErrPersistEOF)
          => (clast.resp = Nil /\ clast.err = ErrPersistEOF)
    /\ (clast.op = "Request" /\ clast.readOutcome = "ReadErr")
          => (clast.resp = Nil /\ clast.err = "ReadErr")

\* C6 witness: a terminal call whose read ended with http.ErrPersistEOF has
\* returned the body of the response
C6_Witness ==
    /\ blast.op = "AsString" /\ blast.readOutcome = ErrPersistEOF
    /\ blast.err = Nil /\ blast.val = <<"x">>

\* C7: a request a builder sends carries the User-Agent entry of its header
\* mapping as its user-agent when that entry is non-empty, and "httplib.go"
\* otherwise; so does a request Client.Request sends.
C7_UserAgent ==
    /\ blast.wrote =>
          b.UserAgent = (IF MapGet(b.Header, "User-Agent") # ""
                         THEN MapGet(b.Header, "User-Agent") ELSE "httplib.go")
    /\ (clast.op = "Request" /\ clast.wrote) =>
          clast.userAgent = (IF clast.headerUA # "" THEN clast.headerUA ELSE "httplib.go")

\* C8 as stated: every terminal call made on the builder has run the
\* finalization, so that after n terminal calls the URL has been extended n
\* times.
C8_EveryCallFinalizes ==
    /\ blast.op # "none" => blast.finalized
    /\ Len(sent) = ncalls

\* C8 as amended: every terminal call that reaches b.getResponse runs the
\* finalization again on the URL the call before it left, and an exchange is
\* made on a connection opened by that call and used by no other; on a GET
\* builder the i-th such call with a non-empty mapping appends one more
\* encoded parameter string, with "?" or "&" as the URL before it requires
\* ("&" from the second on).
C8_Refinalized ==
    /\ blast.op # "none" => (blast.finalized <=> ~(blast.op = "AsFile" /\ blast.err = "OpenErr"))
    /\ Len(sent) <= ncalls
    /\ blast.finalized => (sent # <<>> /\ sent[Len(sent)].url = b.url
                           /\ sent[Len(sent)].conn = blast.conn)
    /\ blast.wrote => blast.conn # NilConn
    /\ \A i \in 1..Len(sent) :
          /\ i > 1 => sent[i].before = sent[i - 1].url
          /\ \A j \in 1..(i - 1) : sent[i].conn # NilConn => sent[j].conn # sent[i].conn
          /\ b.Method = "GET" =>
                IF sent[i].params = {}
                THEN sent[i].url = sent[i].before
                ELSE /\ \E ps \in ParamStrings(sent[i].params) :
                            sent[i].url = sent[i].before \o <<Sep(sent[i].before)>> \o ps
                     /\ (i > 1 /\ sent[i - 1].params # {}) => Sep(sent[i].before) = "&"

\* C8 witness: the second finalization of a GET builder with an unchanged,
\* non-empty mapping has made its exchange, as the first did
C8_Witness ==
    /\ b.Method = "GET" /\ Len(sent) = 2 /\ blast.wrote
    /\ sent[1].params # {} /\ sent[2].params = sent[1].params
    /\ sent[1].conn # NilConn
    /\ Sep(sent[1].before) = "?"

\* C9: a request for an https URL is written only to a connection opened with
\* TLS and verified against the URL's host with its port cut.
C9_SecureOnTLS ==
    (clast.op = "Request" /\ clast.wrote /\ clast.conn # NilConn /\ clast.scheme = "https")
        => (conns[clast.conn].tls /\ conns[clast.conn].verified = VerifyName(clast.host))

\* C10: the content-length a builder's request declares is the number of
\* bytes its body stream yields when the request is written.
C10_ContentLength ==
    blast.wrote => b.ContentLength = Len(blast.dispatched.buf)

=============================================================================
